---- MODULE Spec2Model ----
(***************************************************************************)
(* Model of the two command line tools of jconsoli/sannav:                 *)
(*   json_maps_to_excel.py  converts a SANnav MAPS JSON export to a        *)
(*                          workbook (pseudo_main, _write_report,          *)
(*                          _maps_page, _create_sheet, _descriptors,       *)
(*                          _rule_value);                                  *)
(*   login_test.py          logs in and out of SANnav (psuedo_main).       *)
(*                                                                         *)
(* Python values are tagged records [t, v].  A Python str is the sequence  *)
(* of its maximal '/'-free pieces and its '/' characters, in order (the    *)
(* canonical form kept by PConcat), so that '+' and split('/') are         *)
(* computed rather than assumed.  A dict is a function whose domain is a   *)
(* set of '/'-free keys.                                                   *)
(***************************************************************************)
EXTENDS Integers, Sequences, FiniteSets, TLC

\* ------------------------------------------------------------------------
\* Python values
\* ------------------------------------------------------------------------
NoneV == [t |-> "none", v |-> "none"]
Bool(b) == [t |-> "bool", v |-> b]
PInt(n) == [t |-> "int", v |-> n]
Str(s) == [t |-> "str", v |-> IF s = "" THEN <<>> ELSE <<s>>]
PStr(chunks) == [t |-> "str", v |-> chunks]
List(s) == [t |-> "list", v |-> s]
Tuple(s) == [t |-> "tuple", v |-> s]
Dict(f) == [t |-> "dict", v |-> f]
Func(name) == [t |-> "func", v |-> name]
Obj(name) == [t |-> "obj", v |-> name]

IsNone(x) == x.t = "none"
IsDict(x) == x.t = "dict"
IsBool(x) == x.t = "bool"
IsStr(x) == x.t = "str"

\* a + b on str
PConcat(a, b) ==
    IF a = <<>> THEN b
    ELSE IF b = <<>> THEN a
    ELSE IF a[Len(a)] # "/" /\ Head(b) # "/"
         THEN SubSeq(a, 1, Len(a) - 1) \o <<a[Len(a)] \o Head(b)>> \o Tail(b)
         ELSE a \o b

\* the str of a dict key
KeyStr(key) == IF key = "" THEN <<>> ELSE <<key>>

\* s.split('/') as the list of the keys between the '/' characters
RECURSIVE Split(_)
Split(s) ==
    IF s = <<>> THEN <<"">>
    ELSE IF Head(s) = "/" THEN <<"">> \o Split(Tail(s))
    ELSE LET rest == Split(Tail(s))
         IN  <<Head(s) \o rest[1]>> \o Tail(rest)

\* x.get(key) of a dict
Get(x, key) == IF key \in DOMAIN x.v THEN x.v[key] ELSE NoneV

\* str(type(v))
TypeStr(x) ==
    CASE x.t = "none" -> "<class 'NoneType'>"
      [] x.t = "bool" -> "<class 'bool'>"
      [] x.t = "int" -> "<class 'int'>"
      [] x.t = "str" -> "<class 'str'>"
      [] x.t = "list" -> "<class 'list'>"
      [] x.t = "tuple" -> "<class 'tuple'>"
      [] x.t = "dict" -> "<class 'dict'>"
      [] OTHER -> "<class 'object'>"

\* ', '.join(seq): a TypeError when an item is not a str
RECURSIVE JoinStrs(_)
JoinStrs(seq) ==
    IF seq = <<>> THEN <<>>
    ELSE IF Len(seq) = 1 THEN seq[1].v
    ELSE PConcat(PConcat(seq[1].v, <<", ">>), JoinStrs(Tail(seq)))

Join(seq) ==
    IF \E i \in 1..Len(seq) : ~IsStr(seq[i])
    THEN [exc |-> "TypeError", val |-> NoneV]
    ELSE [exc |-> "none", val |-> PStr(JoinStrs(seq))]

\* ------------------------------------------------------------------------
\* json_maps_to_excel.py: conversion methods and the descriptor table
\* ------------------------------------------------------------------------
_place_holder(v) == [exc |-> "none", val |-> v]

_generic_list(v) ==
    IF v.t = "list" THEN Join(v.v)
    ELSE [exc |-> "none",
          val |-> PStr(<<"NOT LIST (" \o TypeStr(v) \o ")">>)]

\* d.get('m')(v0)
CallM(m, v) ==
    IF m.v = "_generic_list" THEN _generic_list(v) ELSE _place_holder(v)

Leaf(d, c, ha, da) ==
    Dict([d |-> Str(d), c |-> PInt(c), ha |-> Obj(ha), da |-> Obj(da)])
LeafM(d, c, m, ha, da) ==
    Dict([d |-> Str(d), c |-> PInt(c), m |-> Func(m), ha |-> Obj(ha),
          da |-> Obj(da)])

_rule_conv == Dict([
    o |-> Tuple(<<"groupName", "groupType", "isDefaultGroup", "ruleName",
                  "ruleType", "isDefaultRule", "baseRuleName", "severityType",
                  "quietTime", "measureDetails">>),
    groupName |-> Leaf("Group Name", 32, "wrap", "wrap"),
    groupType |-> LeafM("Group Type", 5, "_place_holder", "wrap_vert_center", "wrap_center"),
    isDefaultGroup |-> Leaf("Default Group", 5, "wrap_vert_center", "wrap_center"),
    ruleName |-> Leaf("Rule Name", 38, "wrap", "wrap"),
    ruleType |-> LeafM("Rule Type", 5, "_place_holder", "wrap_vert_center", "wrap_center"),
    isDefaultRule |-> Leaf("Default Rule", 5, "wrap_vert_center", "wrap_center"),
    baseRuleName |-> Leaf("Base Rule Name", 32, "wrap", "wrap"),
    severityType |-> LeafM("Severity Type", 5, "_place_holder", "wrap_vert_center", "wrap_center"),
    quietTime |-> Leaf("Quiet Time", 8, "wrap", "wrap"),
    measureDetails |-> Dict([
        o |-> Tuple(<<"measureId", "thresholdDtls", "timeBaseDtls", "swActions">>),
        measureId |-> Leaf("Measure", 24, "wrap", "wrap"),
        thresholdDtls |-> Dict([
            o |-> Tuple(<<"operator", "thresholdList", "thresholdValue">>),
            operator |-> LeafM("Operator", 5, "_place_holder", "wrap_vert_center", "wrap_center"),
            thresholdList |-> LeafM("Threshold List", 12, "_generic_list", "wrap", "wrap"),
            thresholdValue |-> Leaf("Threshold Value", 18, "wrap_center", "wrap_center")]),
        timeBaseDtls |-> Dict([
            o |-> Tuple(<<"timeBaseValue">>),
            timeBaseValue |-> Leaf("Time Base Value", 5, "wrap_vert_center", "wrap_center")]),
        swActions |-> Dict([
            o |-> Tuple(<<"rasLogEvent", "snmpTrap", "email", "portDecommission",
                          "fence", "sfpStatusMarginal", "fms", "sddq",
                          "unQuarantine", "toggle", "switchStatusCritical",
                          "switchStatusMarginal", "reBalance", "fpin">>),
            rasLogEvent |-> Leaf("RAS Log", 5, "wrap_vert_center", "wrap_center"),
            snmpTrap |-> Leaf("SNMP Trap", 5, "wrap_vert_center", "wrap_center"),
            email |-> Leaf("email", 5, "wrap_vert_center", "wrap_center"),
            portDecommission |-> Leaf("Decommission", 5, "wrap_vert_center", "wrap_center"),
            fence |-> Leaf("Fence", 5, "wrap_vert_center", "wrap_center"),
            sfpStatusMarginal |-> Leaf("SFP Marginal", 5, "wrap_vert_center", "wrap_center"),
            fms |-> Leaf("FMS", 5, "wrap_vert_center", "wrap_center"),
            sddq |-> Leaf("SDDQ", 5, "wrap_vert_center", "wrap_center"),
            unQuarantine |-> Leaf("Un-quarantine", 5, "wrap_vert_center", "wrap_center"),
            toggle |-> Leaf("Toggle", 5, "wrap_vert_center", "wrap_center"),
            switchStatusCritical |-> Leaf("Switch Critical", 5, "wrap_vert_center", "wrap_center"),
            switchStatusMarginal |-> Leaf("Switch Marginal", 5, "wrap_vert_center", "wrap_center"),
            reBalance |-> Leaf("Re-balance", 5, "wrap_vert_center", "wrap_center"),
            fpin |-> Leaf("FPIN", 5, "wrap_vert_center", "wrap_center")])])])

\* ------------------------------------------------------------------------
\* _descriptors(obj, base_ref): the list of leaf descriptors, or the
\* KeyError of obj['o'] on a node without 'o'
\* ------------------------------------------------------------------------
\* DescLoop without the '/' between the keys of a path
RECURSIVE DescLoop_no_slash(_, _, _)
DescLoop_no_slash(obj, base_ref, ks) ==
    IF ks = <<>> THEN [exc |-> "none", r |-> <<>>]
    ELSE
      LET k == Head(ks)
          d == Get(obj, k)
          here ==
            IF IsDict(d)
            THEN IF ~IsNone(Get(d, "c"))
                 THEN [exc |-> "none",
                       r |-> <<Dict(("k" :> PStr(PConcat(base_ref, KeyStr(k)))) @@ d.v)>>]
                 ELSE IF "o" \in DOMAIN d.v
                      THEN DescLoop_no_slash(d, PConcat(base_ref, KeyStr(k)), d.v["o"].v)
                      ELSE [exc |-> "KeyError", r |-> <<>>]
            ELSE [exc |-> "none", r |-> <<>>]
      IN IF here.exc # "none" THEN here
         ELSE LET rest == DescLoop_no_slash(obj, base_ref, Tail(ks))
              IN  [exc |-> rest.exc, r |-> here.r \o rest.r]

\* DescLoop with the leaves of a node ahead of those of its subtrees
RECURSIVE DescLoop_leaves_first(_, _, _)
DescLoop_leaves_first(obj, base_ref, ks) ==
    IF ks = <<>> THEN [exc |-> "none", r |-> <<>>]
    ELSE
      LET k == Head(ks)
          d == Get(obj, k)
          isLeaf == IsDict(d) /\ ~IsNone(Get(d, "c"))
          here ==
            IF IsDict(d)
            THEN IF isLeaf
                 THEN [exc |-> "none",
                       r |-> <<Dict(("k" :> PStr(PConcat(base_ref, KeyStr(k)))) @@ d.v)>>]
                 ELSE IF "o" \in DOMAIN d.v
                      THEN DescLoop_leaves_first(d, PConcat(PConcat(base_ref, KeyStr(k)), <<"/">>),
                                                 d.v["o"].v)
                      ELSE [exc |-> "KeyError", r |-> <<>>]
            ELSE [exc |-> "none", r |-> <<>>]
      IN IF here.exc # "none" THEN here
         ELSE LET rest == DescLoop_leaves_first(obj, base_ref, Tail(ks))
              IN  [exc |-> rest.exc,
                   r |-> IF isLeaf THEN here.r \o rest.r ELSE rest.r \o here.r]

RECURSIVE DescLoop(_, _, _)
DescLoop(obj, base_ref, ks) ==
    IF ks = <<>> THEN [exc |-> "none", r |-> <<>>]
    ELSE
      LET k == Head(ks)
          d == Get(obj, k)
          here ==
            IF IsDict(d)
            THEN IF ~IsNone(Get(d, "c"))
                 THEN [exc |-> "none",
                       r |-> <<Dict(("k" :> PStr(PConcat(base_ref, KeyStr(k)))) @@ d.v)>>]
                 ELSE IF "o" \in DOMAIN d.v
                      THEN DescLoop(d, PConcat(PConcat(base_ref, KeyStr(k)), <<"/">>),
                                    d.v["o"].v)
                      ELSE [exc |-> "KeyError", r |-> <<>>]
            ELSE [exc |-> "none", r |-> <<>>]
      IN IF here.exc # "none" THEN here
         ELSE LET rest == DescLoop(obj, base_ref, Tail(ks))
              IN  [exc |-> rest.exc, r |-> here.r \o rest.r]

_descriptors(obj, base_ref) ==
    IF "o" \in DOMAIN obj.v
    THEN DescLoop(obj, base_ref, obj.v["o"].v)
    ELSE [exc |-> "KeyError", r |-> <<>>]

\* ------------------------------------------------------------------------
\* _rule_value(d, rule): exc is the exception raised ("none": returned
\* val); calls lists the arguments the conversion method was called with
\* ------------------------------------------------------------------------
RECURSIVE Walk(_, _)
Walk(v0, kl) ==
    IF kl = <<>> THEN [exc |-> "none", val |-> v0]
    ELSE IF ~IsDict(v0) THEN [exc |-> "AttributeError", val |-> NoneV]
    ELSE Walk(Get(v0, Head(kl)), Tail(kl))

\* _rule_value with the conversion method left uncalled on None
_rule_value_skip_none(d, rule) ==
    IF IsNone(Get(d, "k")) THEN [exc |-> "none", val |-> NoneV, calls |-> <<>>]
    ELSE
      LET w == Walk(rule, Split(Get(d, "k").v))
      IN  IF w.exc # "none" THEN [exc |-> w.exc, val |-> NoneV, calls |-> <<>>]
          ELSE IF IsNone(Get(d, "m")) \/ IsNone(w.val)
               THEN [exc |-> "none", val |-> w.val, calls |-> <<>>]
               ELSE LET c == CallM(Get(d, "m"), w.val)
                    IN  [exc |-> c.exc, val |-> c.val, calls |-> <<w.val>>]

_rule_value(d, rule) ==
    IF IsNone(Get(d, "k")) THEN [exc |-> "none", val |-> NoneV, calls |-> <<>>]
    ELSE
      LET w == Walk(rule, Split(Get(d, "k").v))
      IN  IF w.exc # "none" THEN [exc |-> w.exc, val |-> NoneV, calls |-> <<>>]
          ELSE IF IsNone(Get(d, "m"))
               THEN [exc |-> "none", val |-> w.val, calls |-> <<>>]
               ELSE LET c == CallM(Get(d, "m"), w.val)
                    IN  [exc |-> c.exc, val |-> c.val, calls |-> <<w.val>>]

\* ------------------------------------------------------------------------
\* _create_sheet(wb, tc, sheet_name, sheet_i, sheet_title, headers)
\* ------------------------------------------------------------------------
\* the headers after the loop of lines 191-195: d.update(dict(col=col))
WithCols(headers) ==
    [i \in 1..Len(headers) |-> Dict(("col" :> PInt(i)) @@ headers[i].v)]

\* excel_util.cell_update(sheet, row, col, buf, ...)
Cell(row, col, buf) == [row |-> row, col |-> col, val |-> buf]

\* the sheet as created; cells lists the calls of cell_update in their
\* order: the link to the table of contents and the title in row 1, the
\* headers in row 3
_create_sheet(tc, sheet_name, sheet_i, sheet_title, headers) ==
    [name |-> sheet_name,
     index |-> sheet_i,
     cells |-> <<Cell(1, 1, Str("Contents")), Cell(1, 2, PStr(sheet_title))>>
               \o [c \in 1..Len(headers) |-> Cell(3, c, Get(headers[c], "d"))],
     link |-> PConcat(PConcat(<<"#">>, tc), <<"!A1">>),
     width |-> [c \in 1..Len(headers) |-> Get(headers[c], "c").v]]

\* ------------------------------------------------------------------------
\* _maps_page(wb, tc, sheet_name, sheet_i, sheet_title, rule_list)
\* ------------------------------------------------------------------------
\* '\u221A'
Checkmark == Str("u221A")

\* CellBuf without the test of line 276
CellBuf_no_bool(v) ==
    IF IsNone(v) THEN [exc |-> "none", val |-> NoneV]
    ELSE IF v.t \in {"list", "tuple"} THEN Join(v.v)
         ELSE [exc |-> "none", val |-> v]

\* lines 273-279: the cell text of the value v
CellBuf(v) ==
    IF IsNone(v) THEN [exc |-> "none", val |-> NoneV]
    ELSE IF IsBool(v)
         THEN [exc |-> "none", val |-> IF v.v THEN Checkmark ELSE Str("")]
         ELSE IF v.t \in {"list", "tuple"} THEN Join(v.v)
              ELSE [exc |-> "none", val |-> v]

\* lines 272-280: the cells of one rule, descriptor by descriptor, up to
\* the first exception
RECURSIVE FillCols(_, _, _, _, _)
FillCols(dl, i, rule, row, acc) ==
    IF i > Len(dl) THEN acc
    ELSE
      LET d == dl[i]
          rv == _rule_value(d, rule)
          cb == IF rv.exc = "none" THEN CellBuf(rv.val) ELSE [exc |-> rv.exc, val |-> NoneV]
      IN  IF cb.exc # "none" THEN [acc EXCEPT !.exc = cb.exc]
          ELSE FillCols(dl, i + 1, rule, row,
                        [acc EXCEPT !.cells = Append(acc.cells,
                                                     Cell(row, Get(d, "col").v, cb.val))])

\* lines 267-281
RECURSIVE FillRows(_, _, _, _)
FillRows(dl, rule_list, k, acc) ==
    IF k > Len(rule_list) \/ acc.exc # "none" THEN acc
    ELSE
      LET rule == rule_list[k]
          row == 3 + k
      IN  IF IsStr(rule)
          THEN FillRows(dl, rule_list, k + 1,
                        [acc EXCEPT !.cells = Append(acc.cells, Cell(row, 1, rule))])
          ELSE FillRows(dl, rule_list, k + 1, FillCols(dl, 1, rule, row, acc))

\* the sheet added to the workbook and the exception raised on the way, if
\* any
_maps_page(tc, sheet_name, sheet_i, sheet_title, rule_list) ==
    LET dl == WithCols(_descriptors(_rule_conv, <<>>).r)
        sheet == _create_sheet(tc, sheet_name, sheet_i, sheet_title, dl)
        filled == FillRows(dl, rule_list, 1,
                           [exc |-> "none", cells |-> sheet.cells])
    IN  [exc |-> filled.exc,
         descriptor_list |-> dl,
         sheet |-> [sheet EXCEPT !.cells = filled.cells] @@
                   [title |-> sheet_title, rule_list |-> rule_list]]

\* ------------------------------------------------------------------------
\* Tables of json_maps_to_excel.py and the exit codes of brcddb_common
\* ------------------------------------------------------------------------
EXIT_STATUS_OK == 0
EXIT_STATUS_ERROR == 2
EXIT_STATUS_API_ERROR == 3

\* _tc_headers, in the order of insertion
_tc_headers == <<
    [key |-> "policyName", d |-> "Policy", c |-> 32, ha |-> "wrap", da |-> "wrap"],
    [key |-> "virtualSwitchId", d |-> "FID", c |-> 5, ha |-> "wrap", da |-> "wrap"],
    [key |-> "tags", d |-> "Tags", c |-> 32, ha |-> "wrap", da |-> "wrap"],
    [key |-> "description", d |-> "Description", c |-> 32, ha |-> "wrap", da |-> "wrap"],
    [key |-> "isActive", d |-> "Active", c |-> 5, ha |-> "wrap_vert_center", da |-> "wrap_center"],
    [key |-> "isCustom", d |-> "Custom", c |-> 5, ha |-> "wrap_vert_center", da |-> "wrap_center"] >>

\* _page: 'm' is _maps_page in every entry
_page == [
    rulesUnderPortCategory |-> [t |-> "Port Rules", n |-> "port"],
    rulesUnderSwitchStatusCategory |-> [t |-> "Switch Status Rules", n |-> "switch_status"],
    rulesUnderFabricCategory |-> [t |-> "Fabric Rules", n |-> "fabric"],
    rulesUnderFruCategory |-> [t |-> "FRU Rules", n |-> "FRU"],
    rulesUnderSecurityCategory |-> [t |-> "Security Rules", n |-> "security"],
    rulesUnderResourceCategory |-> [t |-> "Resource Rules", n |-> "resource"],
    rulesUnderTrafficOrFlowsCategory |-> [t |-> "Traffic and Flow Rules", n |-> "traffic"],
    rulesUnderFpiCategory |-> [t |-> "Fabric Performance Impact Rules", n |-> "fpi"],
    rulesUnderExtensionTunnelCategory |-> [t |-> "Extension Tunnel Rules", n |-> "ext_tunnel"],
    rulesUnderExtensionGePortCategory |-> [t |-> "GE Port Rules", n |-> "ext_ge_port"],
    rulesUnderBackendPortCategory |-> [t |-> "Backend Port Rules", n |-> "backend"],
    rulesUnderIoLatencyCategory |-> [t |-> "I/O Latency Rules", n |-> "latency"],
    rulesUnderIoPerformanceCategory |-> [t |-> "Performance Rules", n |-> "performance"],
    rulesUnderIoSCSICategory |-> [t |-> "SCSI Rules", n |-> "scsi"],
    rulesUnderAmpHealthCategory |-> [t |-> "AMP Health Rules", n |-> "amp_health"],
    rulesUnderAmpResourceCategory |-> [t |-> "AMP Resource Rules", n |-> "amp_resource"],
    rulesUnderIoHealthCategory |-> [t |-> "I/O Health Rules", n |-> "io_health"],
    uncategorizedDefaultRules |-> [t |-> "Uncategorized Default Rules", n |-> "uncat_dflt"]]

\* tc_page of _write_report
tc_page == <<"MAPS_Policies">>

\* PageFor with one name for every unknown category
PageFor_no_index(k1, sheet_index) ==
    IF k1 \in DOMAIN _page
    THEN [sheet_name |-> PConcat(PConcat(<<_page[k1].n>>, <<"_">>), <<ToString(sheet_index)>>),
          sheet_title |-> <<_page[k1].t>>]
    ELSE [sheet_name |-> <<"unknown">>, sheet_title |-> <<"Unknown">>]

\* lines 353-360: the sheet name and title of category k1, the KeyError
\* of _page[k1] being caught
PageFor(k1, sheet_index) ==
    IF k1 \in DOMAIN _page
    THEN [sheet_name |-> PConcat(PConcat(<<_page[k1].n>>, <<"_">>), <<ToString(sheet_index)>>),
          sheet_title |-> <<_page[k1].t>>]
    ELSE [sheet_name |-> PConcat(<<"unknown_">>, <<ToString(sheet_index)>>),
          sheet_title |-> KeyStr(k1)]

\* lines 340-345: the text of a policy attribute in the table of contents
TcDisp(buf) ==
    IF IsBool(buf) THEN (IF buf.v THEN Checkmark ELSE Str(""))
    ELSE IF ~IsStr(buf) THEN Str("")
    ELSE buf

\* the row of a link to a sheet, lines 361-362 and 373-374
LinkRow(sheet_title, sheet_name) ==
    [merge |-> Len(_tc_headers) - 3, font |-> "link", align |-> "wrap",
     disp |-> PStr(sheet_title),
     hyper |-> PConcat(PConcat(<<"#">>, sheet_name), <<"!A1">>)]

\* lines 352 and 372
BlankCell == [new_row |-> FALSE, font |-> "std", align |-> "wrap", disp |-> Str("")]

\* dict()
EmptyRow == [new_row |-> TRUE]

\* ------------------------------------------------------------------------
\* Bounds and inputs
\* ------------------------------------------------------------------------
MaxPolicies == 2
MaxCats == 3
MaxRules == 1

\* rule records of an export
R_e2e == Dict([groupName |-> Str("G1"), ruleName |-> Str("R1"),
               isDefaultRule |-> Bool(TRUE)])
FullMeasure(tl) == Dict([
    measureId |-> Str("CRC"),
    thresholdDtls |-> Dict([operator |-> Str("GE"), thresholdList |-> tl,
                            thresholdValue |-> PInt(5)]),
    timeBaseDtls |-> Dict([timeBaseValue |-> Str("MIN")]),
    swActions |-> Dict([rasLogEvent |-> Bool(TRUE), snmpTrap |-> Bool(FALSE),
                        email |-> Bool(TRUE), fpin |-> Bool(FALSE)])])
R_full == Dict([groupName |-> Str("G2"), groupType |-> Str("PORT"),
                isDefaultGroup |-> Bool(FALSE), ruleName |-> Str("R2"),
                ruleType |-> Bool(TRUE), isDefaultRule |-> Bool(TRUE),
                quietTime |-> PInt(60),
                measureDetails |-> FullMeasure(List(<<Str("a"), Str("b")>>))])
R_boollist == Dict([groupName |-> Str("G3"), ruleName |-> Str("R3"),
                    severityType |-> Bool(FALSE),
                    measureDetails |-> FullMeasure(Bool(TRUE))])
R_nolist == Dict([groupName |-> List(<<Str("G4"), Str("G5")>>), ruleName |-> Str("R4"),
                  measureDetails |-> Dict([
                      thresholdDtls |-> Dict([operator |-> NoneV,
                                              thresholdValue |-> Bool(TRUE)]),
                      timeBaseDtls |-> Dict([timeBaseValue |-> Bool(FALSE)]),
                      swActions |-> Dict([fence |-> Bool(TRUE)])])])
R_nullmd == Dict([groupName |-> Str("G6"), ruleName |-> Str("R6"),
                  measureDetails |-> NoneV])
R_nothr == Dict([ruleName |-> Str("R7"), isDefaultRule |-> Bool(FALSE),
                 measureDetails |-> Dict([measureId |-> Str("ITW"),
                                          swActions |-> Dict([sddq |-> Bool(TRUE)])])])
R_intlist == Dict([groupName |-> Str("G8"), ruleName |-> Str("R8"),
                   measureDetails |-> FullMeasure(List(<<PInt(1), PInt(2)>>))])
R_strmd == Dict([groupName |-> Str("G9"), quietTime |-> List(<<PInt(1)>>),
                 measureDetails |-> Str("n/a")])

Rules == {R_e2e, R_full, R_boollist, R_nolist, R_nullmd, R_nothr, R_intlist, R_strmd}

\* the rules of the exports of a run of the converter
ExportRules == {R_e2e, R_full, R_boollist}

\* category keys of an export: two of _page and one that is not
CatKeys == {"rulesUnderPortCategory", "rulesUnderFabricCategory", "rulesUnderNewCategory"}

\* the sequences of at most n distinct elements of S
RECURSIVE DistinctSeqs(_, _)
DistinctSeqs(S, n) ==
    IF n = 0 THEN {<<>>}
    ELSE LET shorter == DistinctSeqs(S, n - 1)
         IN  shorter \cup {Append(q, e) : <<q, e>> \in
                            {qe \in shorter \X S : \A i \in 1..Len(qe[1]) : qe[1][i] # qe[2]}}

\* the sequences of at most n elements of S
RECURSIVE SeqsUpTo(_, _)
SeqsUpTo(S, n) ==
    IF n = 0 THEN {<<>>}
    ELSE LET shorter == SeqsUpTo(S, n - 1)
         IN  shorter \cup {Append(q, e) : <<q, e>> \in shorter \X S}

\* the attributes of the i-th policy of an export
PolicyAttrs(i) ==
    IF i % 2 = 1
    THEN [policyName |-> Str("dflt_moderate_policy"), virtualSwitchId |-> PInt(128),
          description |-> Str("Moderate"), isActive |-> Bool(TRUE),
          isCustom |-> Bool(FALSE)]
    ELSE [policyName |-> Str("my_policy"), virtualSwitchId |-> PInt(1),
          tags |-> List(<<>>), isActive |-> Bool(FALSE), isCustom |-> Bool(TRUE)]

\* categoryDetailsInfo with its items in the order of the export
ODict(items) == [t |-> "odict", v |-> items]

\* an export of n policies, each with the categories keys, each category
\* with the rules rl
Export(n, keys, rl) ==
    List([i \in 1..n |->
            Dict(PolicyAttrs(i) @@
                 [categoryDetailsInfo |-> ODict([c \in 1..Len(keys) |->
                                                   [k |-> keys[c], v |-> rl]])])])

\* an export of n policies without categoryDetailsInfo
BareExport(n) == List([i \in 1..n |-> Dict(PolicyAttrs(i))])

\* what brcdapi_file.read_dump(in_f) may return
Inputs ==
    {NoneV}
    \cup {BareExport(n) : n \in 0..MaxPolicies}
    \cup {Export(n, keys, rl) : n \in 1..MaxPolicies,
                                keys \in DistinctSeqs(CatKeys, MaxCats),
                                rl \in SeqsUpTo(ExportRules, MaxRules)}

\* the rules of the categories of an export
RulesOf(f) ==
    IF IsNone(f) \/ f.v = <<>> THEN <<>>
    ELSE LET info == Get(f.v[1], "categoryDetailsInfo")
         IN  IF IsNone(info) \/ info.v = <<>> THEN <<>> ELSE info.v[1].v

\* the orders gen_util.sort_obj_str (brcdapi) may return the list q in
Orders(q) ==
    {[i \in 1..Len(q) |-> q[f[i]]] :
        f \in {g \in [1..Len(q) -> 1..Len(q)] :
                 \A i, j \in 1..Len(q) : i # j => g[i] # g[j]}}

\* ------------------------------------------------------------------------
\* State
\* ------------------------------------------------------------------------
VARIABLES
    \* json_maps_to_excel.py
    file,            \* what read_dump returns for the input file
    sort_obj_str,    \* what gen_util.sort_obj_str returns for the rules of a
                     \* category of the file
    pc,              \* position in pseudo_main and _write_report
    obj_i,           \* position of obj in json_obj, from 1
    cat_i,           \* position of (k1, v1) in content.items(), from 1
    sheet_index,
    all_l,
    t_content,
    sheets,          \* the sheets of wb in the order of their creation
    wb_ops,          \* the operations on the workbook so far
    descriptor_list, \* descriptor_list of the last _maps_page
    exc,             \* the exception that ended the run, "none" if none
    rc               \* what pseudo_main returned, NoneV before

convVars == <<file, sort_obj_str, pc, obj_i, cat_i, sheet_index, all_l, t_content, sheets,
              wb_ops, descriptor_list, exc, rc>>

VARIABLES
    \* login_test.py
    p_args,          \* what parse_args returns
    p_pc,            \* position in psuedo_main
    p_log,           \* what was passed to brcdapi_log.log so far
    session,         \* "none", then what login returned: "error" or "open",
                     \* and "closed" after a logout
    login_calls,     \* calls of sannav_auth.login so far
    logout_calls,    \* calls of sannav_auth.logout so far
    p_rc,            \* what psuedo_main returned, NoneV before
    p_exit           \* the exit status of the process, -1 while it runs

probeVars == <<p_args, p_pc, p_log, session, login_calls, logout_calls, p_rc, p_exit>>

VARIABLES
    \* _descriptors on a descriptor tree
    f_tree, f_pc, f_out,
    \* _rule_value and the cell of _maps_page on one descriptor and one rule
    j_d, j_rule, j_pc, j_res, j_cell

flatVars == <<f_tree, f_pc, f_out>>
projVars == <<j_d, j_rule, j_pc, j_res, j_cell>>

vars == <<convVars, probeVars, flatVars, projVars>>

ConvIdle ==
    /\ file = NoneV /\ sort_obj_str = <<>> /\ pc = "idle" /\ obj_i = 0 /\ cat_i = 0 /\ sheet_index = 0
    /\ all_l = <<>> /\ t_content = <<>> /\ sheets = <<>> /\ wb_ops = <<>>
    /\ descriptor_list = <<>> /\ exc = "none" /\ rc = NoneV

ProbeIdle ==
    /\ p_args = NoneV /\ p_pc = "idle" /\ p_log = <<>> /\ session = "none"
    /\ login_calls = 0 /\ logout_calls = 0 /\ p_rc = NoneV /\ p_exit = -1

FlatIdle == f_tree = NoneV /\ f_pc = "idle" /\ f_out = NoneV

ProjIdle ==
    j_d = NoneV /\ j_rule = NoneV /\ j_pc = "idle" /\ j_res = NoneV /\ j_cell = NoneV

json_obj == file.v
content ==
    IF IsNone(Get(json_obj[obj_i], "categoryDetailsInfo")) THEN <<>>
    ELSE Get(json_obj[obj_i], "categoryDetailsInfo").v

ConvInit ==
    /\ file \in Inputs
    /\ sort_obj_str \in Orders(RulesOf(file))
    /\ pc = "start"
    /\ obj_i = 0
    /\ cat_i = 0
    /\ sheet_index = 0
    /\ all_l = <<>>
    /\ t_content = <<>>
    /\ sheets = <<>>
    /\ wb_ops = <<>>
    /\ descriptor_list = <<>>
    /\ exc = "none"
    /\ rc = NoneV

\* pseudo_main without the return of line 446: the report is begun on None
ReadDumpFailed_no_return ==
    /\ pc = "start"
    /\ IsNone(file)
    /\ wb_ops' = Append(wb_ops, [op |-> "new_report"])
    /\ pc' = "returned"
    /\ rc' = PInt(EXIT_STATUS_ERROR)
    /\ UNCHANGED <<file, sort_obj_str, obj_i, cat_i, sheet_index, all_l, t_content, sheets,
                   descriptor_list, exc>>
    /\ UNCHANGED <<probeVars, flatVars, projVars>>

\* pseudo_main, lines 441-446: the input file cannot be read
ReadDumpFailed ==
    /\ pc = "start"
    /\ IsNone(file)
    /\ pc' = "returned"
    /\ rc' = PInt(EXIT_STATUS_ERROR)
    /\ UNCHANGED <<file, sort_obj_str, obj_i, cat_i, sheet_index, all_l, t_content, sheets,
                   wb_ops, descriptor_list, exc>>
    /\ UNCHANGED <<probeVars, flatVars, projVars>>

\* pseudo_main, lines 441-448, and _write_report, lines 323-332
NewReport ==
    /\ pc = "start"
    /\ ~IsNone(file)
    /\ wb_ops' = Append(wb_ops, [op |-> "new_report"])
    /\ t_content' =
         <<[merge |-> 6, font |-> "hdr_1", align |-> "wrap",
            disp |-> Str("MAPS Policies and Rules Report")], EmptyRow>>
         \o [i \in 1..Len(_tc_headers) |->
               [new_row |-> FALSE, font |-> "hdr_2", align |-> _tc_headers[i].ha,
                disp |-> Str(_tc_headers[i].d)]]
         \o <<EmptyRow>>
    /\ obj_i' = 1
    /\ pc' = "policy"
    /\ UNCHANGED <<file, sort_obj_str, cat_i, sheet_index, all_l, sheets, descriptor_list, exc, rc>>
    /\ UNCHANGED <<probeVars, flatVars, projVars>>

\* _write_report, lines 335-350: the next policy and its sub-header
PolicyHeader ==
    /\ pc = "policy"
    /\ obj_i <= Len(json_obj)
    /\ sheet_index' = 0
    /\ t_content' = t_content
         \o [i \in 1..Len(_tc_headers) |->
               [new_row |-> FALSE, font |-> "hdr_2", align |-> _tc_headers[i].da,
                disp |-> TcDisp(Get(json_obj[obj_i], _tc_headers[i].key))]]
         \o <<EmptyRow>>
    /\ all_l' = <<>>
    /\ cat_i' = 1
    /\ pc' = "category"
    /\ UNCHANGED <<file, sort_obj_str, obj_i, sheets, wb_ops, descriptor_list, exc, rc>>
    /\ UNCHANGED <<probeVars, flatVars, projVars>>

\* _write_report, lines 351-367: the sheet of the next category
CategorySheet ==
    /\ pc = "category"
    /\ cat_i <= Len(content)
    /\ LET k1 == content[cat_i].k
           v1 == content[cat_i].v
           pg == PageFor(k1, sheet_index)
           sorted_l == sort_obj_str
           mp == _maps_page(tc_page, pg.sheet_name, sheet_index,
                            pg.sheet_title, sorted_l)
       IN    /\ v1 = RulesOf(file)
             /\  /\ t_content' = t_content \o
                       <<BlankCell, LinkRow(pg.sheet_title, pg.sheet_name)>>
                 /\ all_l' = all_l \o <<PStr(KeyStr(k1))>> \o sorted_l
                 /\ sheets' = Append(sheets,
                       mp.sheet @@ [policy |-> obj_i, key |-> k1, pos |-> cat_i - 1])
                 /\ wb_ops' = Append(wb_ops,
                       [op |-> "create_sheet", name |-> pg.sheet_name])
                 /\ descriptor_list' = mp.descriptor_list
                 /\ exc' = mp.exc
                 /\ IF mp.exc # "none"
                    THEN pc' = "raised" /\ UNCHANGED <<sheet_index, cat_i>>
                    ELSE /\ sheet_index' = sheet_index + 1
                         /\ cat_i' = cat_i + 1
                         /\ pc' = "category"
    /\ UNCHANGED <<file, sort_obj_str, obj_i, rc>>
    /\ UNCHANGED <<probeVars, flatVars, projVars>>

\* _write_report, lines 369-375: the "All" sheet of the policy
AllSheet ==
    /\ pc = "category"
    /\ cat_i > Len(content)
    /\ LET sheet_name == PConcat(<<"all_">>, <<ToString(sheet_index)>>)
           sheet_title == <<"All">>
           mp == _maps_page(tc_page, sheet_name, sheet_index, sheet_title, all_l)
       IN  /\ t_content' = t_content \o <<BlankCell, LinkRow(sheet_title, sheet_name)>>
           /\ sheets' = Append(sheets,
                 mp.sheet @@ [policy |-> obj_i, key |-> "", pos |-> cat_i - 1])
           /\ wb_ops' = Append(wb_ops, [op |-> "create_sheet", name |-> sheet_name])
           /\ descriptor_list' = mp.descriptor_list
           /\ exc' = mp.exc
           /\ IF mp.exc # "none"
              THEN pc' = "raised" /\ UNCHANGED obj_i
              ELSE pc' = "policy" /\ obj_i' = obj_i + 1
    /\ UNCHANGED <<file, sort_obj_str, cat_i, sheet_index, all_l, rc>>
    /\ UNCHANGED <<probeVars, flatVars, projVars>>

\* _write_report, line 378: report_utils.title_page
TitlePage ==
    /\ pc = "policy"
    /\ obj_i > Len(json_obj)
    /\ wb_ops' = Append(wb_ops, [op |-> "title_page", name |-> tc_page])
    /\ pc' = "save"
    /\ UNCHANGED <<file, sort_obj_str, obj_i, cat_i, sheet_index, all_l, t_content, sheets,
                   descriptor_list, exc, rc>>
    /\ UNCHANGED <<probeVars, flatVars, projVars>>

\* _write_report, lines 379-381: excel_util.save_report and the return
SaveReport ==
    /\ pc = "save"
    /\ wb_ops' = Append(wb_ops, [op |-> "save_report"])
    /\ rc' = PInt(EXIT_STATUS_OK)
    /\ pc' = "returned"
    /\ UNCHANGED <<file, sort_obj_str, obj_i, cat_i, sheet_index, all_l, t_content, sheets,
                   descriptor_list, exc>>
    /\ UNCHANGED <<probeVars, flatVars, projVars>>

\* line 460: brcdapi_log.close_log(str(pseudo_main()), True, True)
CloseLog ==
    /\ pc = "returned"
    /\ pc' = "exit"
    /\ UNCHANGED <<file, sort_obj_str, obj_i, cat_i, sheet_index, all_l, t_content, sheets,
                   wb_ops, descriptor_list, exc, rc>>
    /\ UNCHANGED <<probeVars, flatVars, projVars>>

Next ==
    \/ ReadDumpFailed
    \/ NewReport
    \/ PolicyHeader
    \/ CategorySheet
    \/ AllSheet
    \/ TitlePage
    \/ SaveReport
    \/ CloseLog

Init == ConvInit /\ ProbeIdle /\ FlatIdle /\ ProjIdle

Spec == Init /\ [][Next]_vars

\* ------------------------------------------------------------------------
\* login_test.py
\* ------------------------------------------------------------------------
\* the command lines of parse_args: -ip, -id and -pw are required
ProbeArgs ==
    [ip : {"10.0.0.1", "sannav.example.com"},
     id : {"Administrator", "guest"},
     pw : {"password", "wrong"},
     sec : {NoneV, Str("CA"), Str("self")},
     log : {NoneV, Str("_logs")}]

ProbeInit ==
    /\ p_args \in ProbeArgs
    /\ p_pc = "start"
    /\ p_log = <<>>
    /\ session = "none"
    /\ login_calls = 0
    /\ logout_calls = 0
    /\ p_rc = NoneV
    /\ p_exit = -1

\* psuedo_main, lines 94-104: the input and the log file
OpenLog ==
    /\ p_pc = "start"
    /\ LET sec == IF IsNone(p_args.sec) THEN <<"none">> ELSE p_args.sec.v
       IN  p_log' = <<<<"IP:          " \o "(masked)">>,
                      <<"ID:          " \o p_args.id>>,
                      PConcat(<<"security:    ">>, sec)>>
    /\ p_pc' = "login"
    /\ UNCHANGED <<p_args, session, login_calls, logout_calls, p_rc, p_exit>>
    /\ UNCHANGED <<convVars, flatVars, projVars>>

\* LoginFailed without the return of line 112
LoginFailed_no_return ==
    /\ p_pc = "login"
    /\ login_calls' = login_calls + 1
    /\ p_log' = p_log \o <<<<"Attempting login">>,
                           <<"Login failed. Error message is:">>,
                           <<"formatted_error_msg">>>>
    /\ session' = "error"
    /\ p_pc' = "logout"
    /\ UNCHANGED <<p_args, logout_calls, p_rc, p_exit>>
    /\ UNCHANGED <<convVars, flatVars, projVars>>

\* psuedo_main, lines 107-112: sannav_auth.login returns an error object
LoginFailed ==
    /\ p_pc = "login"
    /\ login_calls' = login_calls + 1
    /\ p_log' = p_log \o <<<<"Attempting login">>,
                           <<"Login failed. Error message is:">>,
                           <<"formatted_error_msg">>>>
    /\ session' = "error"
    /\ p_rc' = PInt(EXIT_STATUS_API_ERROR)
    /\ p_pc' = "returned"
    /\ UNCHANGED <<p_args, logout_calls, p_exit>>
    /\ UNCHANGED <<convVars, flatVars, projVars>>

\* LoginSucceeded returning without the logout
LoginSucceeded_no_logout ==
    /\ p_pc = "login"
    /\ login_calls' = login_calls + 1
    /\ session' = "open"
    /\ p_log' = p_log \o <<<<"Attempting login">>, <<"Login succeeded.">>>>
    /\ p_rc' = PInt(EXIT_STATUS_OK)
    /\ p_pc' = "returned"
    /\ UNCHANGED <<p_args, logout_calls, p_exit>>
    /\ UNCHANGED <<convVars, flatVars, projVars>>

\* psuedo_main, lines 107-109 and 115: sannav_auth.login returns a session
LoginSucceeded ==
    /\ p_pc = "login"
    /\ login_calls' = login_calls + 1
    /\ session' = "open"
    /\ p_log' = p_log \o <<<<"Attempting login">>,
                           <<"Login succeeded. Attempting logout">>>>
    /\ p_pc' = "logout"
    /\ UNCHANGED <<p_args, logout_calls, p_rc, p_exit>>
    /\ UNCHANGED <<convVars, flatVars, projVars>>

\* psuedo_main, lines 116-120: sannav_auth.logout returns an error object
LogoutFailed ==
    /\ p_pc = "logout"
    /\ logout_calls' = logout_calls + 1
    /\ p_log' = p_log \o <<<<"Logout failed. Error message is:">>,
                           <<"formatted_error_msg">>>>
    /\ p_rc' = PInt(-1)
    /\ p_pc' = "returned"
    /\ UNCHANGED <<p_args, session, login_calls, p_exit>>
    /\ UNCHANGED <<convVars, flatVars, projVars>>

\* psuedo_main, lines 116-125: sannav_auth.logout succeeds
LogoutSucceeded ==
    /\ p_pc = "logout"
    /\ logout_calls' = logout_calls + 1
    /\ session' = "closed"
    /\ p_log' = Append(p_log, <<"Logout succeeded.">>)
    /\ p_rc' = PInt(EXIT_STATUS_OK)
    /\ p_pc' = "returned"
    /\ UNCHANGED <<p_args, login_calls, p_exit>>
    /\ UNCHANGED <<convVars, flatVars, projVars>>

\* lines 133-138: exit(_ec); the exit status of a process is one byte
Exit ==
    /\ p_pc = "returned"
    /\ p_exit' = p_rc.v % 256
    /\ p_pc' = "exit"
    /\ UNCHANGED <<p_args, p_log, session, login_calls, logout_calls, p_rc>>
    /\ UNCHANGED <<convVars, flatVars, projVars>>

NextProbe ==
    \/ OpenLog
    \/ LoginFailed
    \/ LoginSucceeded
    \/ LogoutFailed
    \/ LogoutSucceeded
    \/ Exit

InitProbe == ProbeInit /\ ConvIdle /\ FlatIdle /\ ProjIdle

SpecProbe == InitProbe /\ [][NextProbe]_vars

\* ------------------------------------------------------------------------
\* _descriptors on descriptor trees
\* ------------------------------------------------------------------------
MaxDepth == 2

Absent == [t |-> "absent", v |-> "absent"]
LeafX == Dict([d |-> Str("X"), c |-> PInt(8)])
LeafY == Dict([d |-> Str("Y"), c |-> PInt(5), m |-> Func("_place_holder")])
\* a node with a column width is a leaf whatever else it holds
LeafZ == Dict([d |-> Str("Z"), c |-> PInt(3), o |-> Tuple(<<"a">>), a |-> LeafX])
SubTree == Dict([o |-> Tuple(<<"b", "a">>), a |-> LeafY, b |-> LeafX])

\* the 'o' lists of a node over the keys "a" and "b"
OrderLists == {<<>>, <<"a">>, <<"b">>, <<"a", "b">>, <<"b", "a">>, <<"a", "a">>}

Node(o, ca, cb) ==
    Dict(IF ca = Absent /\ cb = Absent THEN [o |-> Tuple(o)]
         ELSE IF ca = Absent THEN [o |-> Tuple(o), b |-> cb]
         ELSE IF cb = Absent THEN [o |-> Tuple(o), a |-> ca]
         ELSE [o |-> Tuple(o), a |-> ca, b |-> cb])

\* the descriptor trees of at most n levels of internal nodes below "a"
RECURSIVE Trees(_)
Trees(n) ==
    IF n = 0 THEN {}
    ELSE {Node(o, ca, cb) : o \in OrderLists,
                            ca \in {Absent, LeafX, Str("x")} \cup Trees(n - 1),
                            cb \in {Absent, LeafZ, SubTree}}

FlatInit ==
    /\ f_tree \in Trees(MaxDepth)
    /\ f_pc = "call"
    /\ f_out = NoneV

\* descriptor_list = _descriptors(tree, '')
Flatten ==
    /\ f_pc = "call"
    /\ f_out' = _descriptors(f_tree, <<>>)
    /\ f_pc' = "done"
    /\ UNCHANGED f_tree
    /\ UNCHANGED <<convVars, probeVars, projVars>>

NextFlat == Flatten

InitFlat == FlatInit /\ ConvIdle /\ ProbeIdle /\ ProjIdle

SpecFlat == InitFlat /\ [][NextFlat]_vars

\* ------------------------------------------------------------------------
\* _rule_value and the cell of _maps_page on one descriptor and one rule
\* ------------------------------------------------------------------------
\* the descriptors of a sheet
SheetDescriptors == WithCols(_descriptors(_rule_conv, <<>>).r)

ProjInit ==
    /\ j_d \in {SheetDescriptors[i] : i \in 1..Len(SheetDescriptors)}
               \cup {Get(_rule_conv, "groupType")}
    /\ j_rule \in Rules
    /\ j_pc = "call"
    /\ j_res = NoneV
    /\ j_cell = NoneV

\* _maps_page, line 274: v = _rule_value(d, rule) returns
RuleValueReturns ==
    /\ j_pc = "call"
    /\ _rule_value(j_d, j_rule).exc = "none"
    /\ j_res' = _rule_value(j_d, j_rule)
    /\ j_pc' = "value"
    /\ UNCHANGED <<j_d, j_rule, j_cell>>
    /\ UNCHANGED <<convVars, probeVars, flatVars>>

\* _maps_page, line 274: v = _rule_value(d, rule) raises
RuleValueRaises ==
    /\ j_pc = "call"
    /\ _rule_value(j_d, j_rule).exc # "none"
    /\ j_res' = _rule_value(j_d, j_rule)
    /\ j_pc' = "raised"
    /\ UNCHANGED <<j_d, j_rule, j_cell>>
    /\ UNCHANGED <<convVars, probeVars, flatVars>>

\* _maps_page, lines 275-280: the cell is written, unless the join of
\* line 279 raises
WriteCell ==
    /\ j_pc = "value"
    /\ LET cb == CellBuf(j_res.val)
       IN  IF cb.exc = "none"
           THEN j_cell' = cb.val /\ j_pc' = "written" /\ UNCHANGED j_res
           ELSE j_res' = [j_res EXCEPT !.exc = cb.exc] /\ j_pc' = "cell_raised"
                /\ UNCHANGED j_cell
    /\ UNCHANGED <<j_d, j_rule>>
    /\ UNCHANGED <<convVars, probeVars, flatVars>>

NextProj ==
    \/ RuleValueReturns
    \/ RuleValueRaises
    \/ WriteCell

InitProj == ProjInit /\ ConvIdle /\ ProbeIdle /\ FlatIdle

SpecProj == InitProj /\ [][NextProj]_vars

\* ------------------------------------------------------------------------
\* Properties
\* ------------------------------------------------------------------------
\* the value of a record at a path of keys, None where a key is absent
RECURSIVE ValueAt(_, _)
ValueAt(v, segs) ==
    IF segs = <<>> THEN v
    ELSE IF IsDict(v) /\ Head(segs) \in DOMAIN v.v THEN ValueAt(v.v[Head(segs)], Tail(segs))
    ELSE NoneV

\* every key of the path is present in the record
RECURSIVE HasPath(_, _)
HasPath(v, segs) ==
    \/ segs = <<>>
    \/ /\ IsDict(v)
       /\ Head(segs) \in DOMAIN v.v
       /\ HasPath(v.v[Head(segs)], Tail(segs))

PathOfDesc(d) == Split(Get(d, "k").v)
HasM(d) == ~IsNone(Get(d, "m"))
MName(d) == IF HasM(d) THEN Get(d, "m").v ELSE "none"

\* C1: whenever login returned an error object, logout has not been called
\* and psuedo_main returns EXIT_STATUS_API_ERROR, which is neither
\* EXIT_STATUS_ERROR nor EXIT_STATUS_OK, and the process exits with it.
C1_LoginFailureShortCircuits ==
    session = "error" =>
        /\ logout_calls = 0
        /\ p_pc \in {"returned", "exit"}
        /\ p_rc = PInt(EXIT_STATUS_API_ERROR)
        /\ p_rc # PInt(EXIT_STATUS_ERROR)
        /\ p_rc # PInt(EXIT_STATUS_OK)
        /\ p_pc = "exit" => p_exit = EXIT_STATUS_API_ERROR

C1_Witness == session = "error" /\ p_pc = "exit" /\ login_calls = 1

\* C2: whenever login succeeded and logout returned an error object,
\* psuedo_main returns EXIT_STATUS_ERROR, the status of the converter for an
\* unreadable input file, which differs from EXIT_STATUS_API_ERROR and
\* EXIT_STATUS_OK, and the process exits with it.
C2_LogoutFailureStatus ==
    (session = "open" /\ logout_calls = 1) =>
        /\ p_rc = PInt(EXIT_STATUS_ERROR)
        /\ p_rc # PInt(EXIT_STATUS_API_ERROR)
        /\ p_rc # PInt(EXIT_STATUS_OK)
        /\ p_pc = "exit" => p_exit = EXIT_STATUS_ERROR

\* C9: login is called at most once, and exactly once in a run that has
\* returned; a run that has returned called logout exactly once if login
\* succeeded and not at all otherwise; it ended logged out with
\* EXIT_STATUS_OK or in an error with another status.
C9_SessionLifecycle ==
    /\ login_calls <= 1
    /\ logout_calls <= 1
    /\ session \in {"open", "closed"} => login_calls = 1
    /\ session = "closed" => logout_calls = 1
    /\ p_pc \in {"returned", "exit"} =>
         /\ login_calls = 1
         /\ session \in {"open", "closed"} => logout_calls = 1
         /\ session = "error" => logout_calls = 0
         /\ \/ session = "closed" /\ p_rc = PInt(EXIT_STATUS_OK)
            \/ session \in {"error", "open"} /\ p_rc # PInt(EXIT_STATUS_OK)

C9_Witness == p_pc = "exit" /\ session = "closed" /\ login_calls = 1 /\ logout_calls = 1

\* C3: _rule_value never raises, and returns None when a key of the
\* descriptor's path is absent from the rule.
C3_ProjectionTotal ==
    /\ j_pc # "raised"
    /\ (j_pc \in {"value", "written"} /\ ~IsNone(Get(j_d, "k"))
        /\ ~HasPath(j_rule, PathOfDesc(j_d))) => IsNone(j_res.val)

\* C5 as claimed: no conversion method is called with None; where the
\* walked path yields None, None is returned and the cell is empty.
C5_NeverCalledWithNone ==
    (j_pc \in {"value", "written"} /\ ~IsNone(Get(j_d, "k"))) =>
        /\ \A i \in 1..Len(j_res.calls) : ~IsNone(j_res.calls[i])
        /\ IsNone(ValueAt(j_rule, PathOfDesc(j_d))) =>
             /\ IsNone(j_res.val)
             /\ j_pc = "written" => IsNone(j_cell)

\* C5 as amended: when _rule_value returns for a descriptor with a
\* conversion method, the method was called once, with the value the walked
\* path yields, None included; on None, _place_holder gives None and an
\* empty cell, and _generic_list the text 'NOT LIST (<class 'NoneType'>)',
\* which is written to the cell.  Without a method nothing is called.
C5_CalledWithWalkedValue ==
    (j_pc \in {"value", "written"} /\ ~IsNone(Get(j_d, "k"))) =>
        LET v0 == ValueAt(j_rule, PathOfDesc(j_d))
            diag == Str("NOT LIST (<class 'NoneType'>)")
        IN  /\ HasM(j_d) => j_res.calls = <<v0>>
            /\ ~HasM(j_d) => j_res.calls = <<>>
            /\ IsNone(v0) =>
                 /\ MName(j_d) # "_generic_list" =>
                      /\ IsNone(j_res.val)
                      /\ j_pc = "written" => IsNone(j_cell)
                 /\ MName(j_d) = "_generic_list" =>
                      /\ j_res.val = diag
                      /\ j_pc = "written" => j_cell = diag

C5_Witness ==
    /\ j_pc = "written"
    /\ MName(j_d) = "_generic_list"
    /\ j_res.calls = <<NoneV>>
    /\ j_cell = Str("NOT LIST (<class 'NoneType'>)")

\* the rule of the end-to-end case and the exports that hold it alone in
\* one known category of one policy
IsEndToEndInput ==
    \E key \in CatKeys \cap DOMAIN _page : file = Export(1, <<key>>, <<R_e2e>>)

\* the cell of sheet s at row and col was written, and last with buf
Holds(s, row, col, buf) ==
    \E w \in 1..Len(s.cells) :
        /\ s.cells[w] = Cell(row, col, buf)
        /\ \A x \in (w + 1)..Len(s.cells) :
              s.cells[x].row # row \/ s.cells[x].col # col

\* the column of the descriptor of path k
ColOf(k) ==
    CHOOSE c \in 1..Len(SheetDescriptors) : Get(SheetDescriptors[c], "k") = Str(k)

\* C4: for the end-to-end input the run completes and saves the workbook,
\* and row 4 of the category's sheet shows "G1" under Group Name, "R1" under
\* Rule Name and the checkmark under Default Rule.
C4_EndToEnd ==
    (IsEndToEndInput /\ pc \in {"raised", "exit"}) =>
        /\ pc = "exit"
        /\ exc = "none"
        /\ rc = PInt(EXIT_STATUS_OK)
        /\ Len(sheets) = 2
        /\ wb_ops[Len(wb_ops)].op = "save_report"
        /\ Holds(sheets[1], 4, ColOf("groupName"), Str("G1"))
        /\ Holds(sheets[1], 4, ColOf("ruleName"), Str("R1"))
        /\ Holds(sheets[1], 4, ColOf("isDefaultRule"), Checkmark)

\* the cells written for the rules of the sheets, each as the sheet and
\* the place of the call of cell_update, whose rule holds a bool at the
\* path of the descriptor of the column
BoolCells ==
    {sw \in UNION {{<<i, w>> : w \in 1..Len(sheets[i].cells)} : i \in 1..Len(sheets)} :
        LET s == sheets[sw[1]]
            cell == s.cells[sw[2]]
        IN  /\ cell.row >= 4
            /\ ~IsStr(s.rule_list[cell.row - 3])
            /\ IsBool(ValueAt(s.rule_list[cell.row - 3],
                              PathOfDesc(SheetDescriptors[cell.col])))}

CellOf(sw) == sheets[sw[1]].cells[sw[2]].val
DescOf(sw) == SheetDescriptors[sheets[sw[1]].cells[sw[2]].col]
BoolOf(sw) ==
    ValueAt(sheets[sw[1]].rule_list[sheets[sw[1]].cells[sw[2]].row - 3],
            PathOfDesc(DescOf(sw))).v
Glyph(b) == IF b THEN Checkmark ELSE Str("")

\* C6 as claimed: whatever the conversion method of the descriptor, the
\* cell of a rule with true at the descriptor's path holds the checkmark
\* and with false the empty string.
C6_BoolAnyConversion ==
    \A sw \in BoolCells : CellOf(sw) = Glyph(BoolOf(sw))

\* C6 as amended: the cell written for a bool at the path of a descriptor
\* without conversion method or with _place_holder holds the checkmark for
\* true and the empty string for false; the cell of a descriptor with
\* _generic_list holds the text 'NOT LIST (<class 'bool'>)'.
C6_BoolRendering ==
    \A sw \in BoolCells :
        IF MName(DescOf(sw)) = "_generic_list"
        THEN CellOf(sw) = Str("NOT LIST (<class 'bool'>)")
        ELSE CellOf(sw) = Glyph(BoolOf(sw))

C6_Witness ==
    /\ \E sw \in BoolCells :
         /\ MName(DescOf(sw)) = "_place_holder"
         /\ BoolOf(sw) /\ CellOf(sw) = Checkmark
    /\ \E sw \in BoolCells :
         /\ MName(DescOf(sw)) = "none"
         /\ ~BoolOf(sw) /\ CellOf(sw) = Str("")

\* a rule on which _maps_page raises
RuleFails(rule) ==
    \E c \in 1..Len(SheetDescriptors) :
        LET rv == _rule_value(SheetDescriptors[c], rule)
        IN  rv.exc # "none" \/ CellBuf(rv.val).exc # "none"

IsUnknownSheet(s) == s.key # "" /\ s.key \notin DOMAIN _page

RECURSIVE DepthOf(_, _)
DepthOf(node, d) ==
    IF ~IsDict(node) THEN -1
    ELSE IF Get(node, "d") = d THEN 0
    ELSE LET below == {DepthOf(node.v[key], d) : key \in DOMAIN node.v} \ {-1}
         IN  IF below = {} THEN -1
             ELSE 1 + CHOOSE n \in below : \A m \in below : n <= m

\* C10: the path 'k' of every descriptor of the descriptor list of a sheet
\* has as many '/'-separated segments as its leaf is levels below the root
\* of _rule_conv.
C10_PathDepth ==
    \A i \in 1..Len(descriptor_list) :
        LET d == descriptor_list[i]
        IN  Len(Split(Get(d, "k").v)) = DepthOf(_rule_conv, Get(d, "d"))

C10_Witness ==
    /\ Len(descriptor_list) = 28
    /\ \E i \in 1..Len(descriptor_list) :
         /\ Get(descriptor_list[i], "k") = PStr(<<"measureDetails", "/", "thresholdDtls", "/", "operator">>)
         /\ Len(Split(Get(descriptor_list[i], "k").v)) = 3
    /\ \E i \in 1..Len(descriptor_list) :
         /\ Get(descriptor_list[i], "k") = Str("groupName")
         /\ DepthOf(_rule_conv, Get(descriptor_list[i], "d")) = 1

\* the positions in the 'o' lists of the trees
OrderPositions == UNION {1..Len(o) : o \in OrderLists}

\* a route is a sequence of positions in the 'o' lists of the nodes it
\* goes through, from the root; the node it ends at, Absent when it leaves
\* the tree or goes through a leaf
RECURSIVE NodeAt(_, _)
NodeAt(node, route) ==
    IF route = <<>> THEN node
    ELSE IF ~IsDict(node) THEN Absent
    ELSE IF ~IsNone(Get(node, "c")) \/ "o" \notin DOMAIN node.v THEN Absent
    ELSE IF Head(route) > Len(node.v["o"].v) THEN Absent
    ELSE NodeAt(Get(node, node.v["o"].v[Head(route)]), Tail(route))

\* the keys along a route
RECURSIVE KeysOf(_, _)
KeysOf(node, route) ==
    IF route = <<>> THEN <<>>
    ELSE LET key == node.v["o"].v[Head(route)]
         IN  <<key>> \o KeysOf(Get(node, key), Tail(route))

\* the keys joined by '/'
RECURSIVE SlashJoin(_)
SlashJoin(keys) ==
    IF Len(keys) = 1 THEN KeyStr(keys[1])
    ELSE PConcat(PConcat(KeyStr(keys[1]), <<"/">>), SlashJoin(Tail(keys)))

\* the routes of the tree that end at a leaf, a node with a column width
LeafRoutes(tree) ==
    {r \in SeqsUpTo(OrderPositions, MaxDepth + 1) \ {<<>>} :
        LET n == NodeAt(tree, r) IN IsDict(n) /\ ~IsNone(Get(n, "c"))}

\* route q is visited before route r in a depth-first, pre-order walk
Before(q, r) ==
    \E i \in 1..Len(q) :
        /\ i <= Len(r)
        /\ q[i] < r[i]
        /\ \A j \in 1..(i - 1) : q[j] = r[j]

\* C7: the list _descriptors returns for a tree holds, for each route to a
\* leaf, at the place of the route in the depth-first pre-order along the
\* 'o' lists, the leaf with 'k' set to the '/'-joined keys of the route,
\* and nothing else.
C7_PreOrderLeaves ==
    f_pc = "done" =>
        LET routes == LeafRoutes(f_tree)
        IN  /\ f_out.exc = "none"
            /\ Len(f_out.r) = Cardinality(routes)
            /\ \A r \in routes :
                 LET place == 1 + Cardinality({q \in routes : Before(q, r)})
                 IN  f_out.r[place] =
                       Dict(("k" :> PStr(SlashJoin(KeysOf(f_tree, r)))) @@ NodeAt(f_tree, r).v)

C7_Witness ==
    /\ f_pc = "done"
    /\ f_tree.v["o"].v = <<"b", "a">>
    /\ Len(f_out.r) = 5
    /\ Get(f_out.r[1], "k") = PStr(<<"b", "/", "b">>)
    /\ Get(f_out.r[3], "k") = PStr(<<"a", "/", "a">>)
    /\ Get(f_out.r[4], "k") = PStr(<<"a", "/", "b", "/", "b">>)

\* ------------------------------------------------------------------------
\* C11: when read_dump returns None for the input file, pseudo_main
\* returns EXIT_STATUS_ERROR and there is no workbook operation at all: no
\* workbook is created, no sheet is added, no table of contents is built
\* and nothing is saved
\* ------------------------------------------------------------------------
C11_InputFileError ==
    IsNone(file) =>
        /\ wb_ops = <<>> /\ sheets = <<>> /\ t_content = <<>>
        /\ pc \in {"start", "returned", "exit"}
        /\ pc \in {"returned", "exit"} => rc = PInt(EXIT_STATUS_ERROR)

C11_Witness ==
    /\ IsNone(file) /\ pc = "exit"
    /\ rc = PInt(EXIT_STATUS_ERROR)
    /\ wb_ops = <<>>

\* the categories of policy p of the input
CategoriesOf(p) ==
    LET info == Get(json_obj[p], "categoryDetailsInfo")
    IN  IF IsNone(info) THEN <<>> ELSE info.v

\* the places of the operation o among the operations on the workbook
Ops(o) == {i \in 1..Len(wb_ops) : wb_ops[i].op = o}

\* the run of _write_report is over: it returned or an exception left it
WriteReportEnded == ~IsNone(file) /\ pc \in {"returned", "exit", "raised"}

\* ------------------------------------------------------------------------
\* C12: for any list of policies, title_page is called exactly once, and
\* only after every category sheet and the 'All' sheet of every policy was
\* created; the workbook is saved exactly once, as the last operation on
\* the workbook, after title_page
\* ------------------------------------------------------------------------
C12_WorkbookLifecycle ==
    /\ \A t \in Ops("title_page") :
         /\ \A c \in Ops("create_sheet") : c < t
         /\ \A p \in 1..Len(json_obj) :
              /\ \A c \in 1..Len(CategoriesOf(p)) :
                   \E i \in 1..Len(sheets) :
                      /\ sheets[i].policy = p /\ sheets[i].pos = c - 1
                      /\ sheets[i].key = CategoriesOf(p)[c].k
              /\ \E i \in 1..Len(sheets) :
                   /\ sheets[i].policy = p /\ sheets[i].key = ""
                   /\ sheets[i].title = <<"All">>
    /\ \A v \in Ops("save_report") :
         /\ v = Len(wb_ops)
         /\ \E t \in Ops("title_page") : t < v
    /\ WriteReportEnded =>
         /\ Cardinality(Ops("title_page")) = 1
         /\ Cardinality(Ops("save_report")) = 1

\* the rows of the table of contents that link to a sheet
LinkRows == {j \in 1..Len(t_content) : "hyper" \in DOMAIN t_content[j]}

\* the hyperlink to the sheet named sheet_name
HyperOf(sheet_name) == PConcat(PConcat(<<"#">>, sheet_name), <<"!A1">>)

\* ------------------------------------------------------------------------
\* C13: for any number of policies the sheet names asked for, category
\* sheets and 'All' sheets, are pairwise distinct in the whole workbook, so
\* a hyperlink '#<sheet name>!A1' of the table of contents names exactly
\* one sheet, the one made for its category; there is one link for each
\* sheet made
\* ------------------------------------------------------------------------
C13_LinkIntegrity ==
    /\ \A i, j \in 1..Len(sheets) : i # j => sheets[i].name # sheets[j].name
    /\ \A r \in LinkRows :
         Cardinality({i \in 1..Len(sheets) :
                        HyperOf(sheets[i].name) = t_content[r].hyper}) = 1
    /\ Cardinality(LinkRows) = Len(sheets)

\* the calls of cell_update on sheet s that wrote into the given row
RowWrites(s, row) == {w \in 1..Len(s.cells) : s.cells[w].row = row}

\* ------------------------------------------------------------------------
\* C14: the flattened descriptors get the columns 1..N in their order, no
\* column twice; the k-th entry (from 0) of the rule list is written in
\* row 4+k only; an entry that is a string writes exactly one cell, in
\* column 1 of its row; any other entry writes exactly one cell for each
\* descriptor, in the column of the descriptor
\* ------------------------------------------------------------------------
C14_SheetLayout ==
    \A i \in 1..Len(sheets) :
        LET s == sheets[i]
            N == Len(descriptor_list)
        IN  /\ N = Len(SheetDescriptors)
            /\ \A c \in 1..N : Get(descriptor_list[c], "col") = PInt(c)
            /\ \A c \in 1..N :
                 PathOfDesc(descriptor_list[c]) = PathOfDesc(SheetDescriptors[c])
            /\ \A w \in 1..Len(s.cells) :
                 s.cells[w].row \in {1, 3} \cup 4..(3 + Len(s.rule_list))
            /\ \A k \in 0..(Len(s.rule_list) - 1) :
                 LET rule == s.rule_list[k + 1]
                     ws == RowWrites(s, 4 + k)
                 IN  IF IsStr(rule)
                     THEN /\ Cardinality(ws) = 1
                          /\ \A w \in ws : s.cells[w] = Cell(4 + k, 1, rule)
                     ELSE /\ Cardinality(ws) = N
                          /\ \A c \in 1..N :
                               Cardinality({w \in ws : s.cells[w].col = c}) = 1

====
